---- MODULE Spec2Model ----
(***************************************************************************)
(* Model of soar's package registry (PackageStorage): loading, queries,    *)
(* search, install_packages, remove_packages and run; and of soar-cli's     *)
(* download command (download.rs).                                          *)
(*                                                                          *)
(* Strings are sequences of one-character strings, Option<T> is a sequence  *)
(* of length at most one, and a HashMap is an association list whose order  *)
(* is the iteration order of the map (unspecified in Rust, hence chosen     *)
(* nondeterministically when an entry is inserted).                         *)
(***************************************************************************)
EXTENDS Integers, Sequences, FiniteSets

VARIABLES
    repository,         \* PackageStorage.repository
    op,                 \* the registry operation that ran last
    query,              \* its PackageQuery argument
    ret,                \* its return value
    answer,             \* the user's answer to the variant prompt, 0 if none was read
    pc,                 \* position of install_packages
    package_names,      \* install_packages' argument
    parallel,           \* CONFIG.parallel.unwrap_or_default()
    parallel_limit,     \* CONFIG.parallel_limit.unwrap_or(2)
    resolution,         \* results of the resolve_package calls made so far
    resolved_packages,  \* the collected Vec<ResolvedPackage>
    permits,            \* available permits of the semaphore
    idx,                \* loop counter of the spawn loop / sequential loop
    joined,             \* number of handles already awaited
    task,               \* per package: state of its install (task)
    holder,             \* per package: number of permits its task owns
    attempts,           \* per package: number of times install was started
    installed_count,    \* the AtomicU64 counter
    errors_logged,      \* number of error! lines written by install_packages
    printed,            \* the summaries printed so far: <<succeeded, attempted>>
    result,             \* return value of the command
    links,              \* download's arguments: direct links,
    github,             \*   GitHub projects,
    gitlab,             \*   GitLab projects,
    ghcr,               \*   OCI references
    ctx,                \* DownloadContext: yes, regex_patterns
    at,                 \* number of targets of the current list already handled
    call,               \* locals of the handle_platform_download call in progress
    attempted,          \* the targets taken up so far: <<list, position>>
    fetched,            \* what fetch_releases was asked for: parameter, project, tag
    eprintln,           \* number of error lines download has printed
    succeeded,          \* number of targets that ended without an error
    downloaded,         \* number of calls of ReleaseHandler::download
    command,            \* run's argument
    config,             \* CONFIG.repositories
    runner              \* the Runner that run builds

regvars == <<repository, op, query, ret, answer>>
insvars == <<pc, package_names, parallel, parallel_limit, resolution,
             resolved_packages, permits, idx, joined, task, holder, attempts,
             installed_count, errors_logged, printed, result>>
dlvars == <<links, github, gitlab, ghcr, ctx, at, call, attempted, fetched,
            eprintln, succeeded, downloaded>>
runvars == <<command, config, runner>>
cmdvars == <<dlvars, runvars>>
vars == <<repository, op, query, ret, answer, pc, package_names, parallel,
          parallel_limit, resolution, resolved_packages, permits, idx, joined,
          task, holder, attempts, installed_count, errors_logged, printed,
          result, links, github, gitlab, ghcr, ctx, at, call, attempted,
          fetched, eprintln, succeeded, downloaded, command, config, runner>>

(***************************************************************************)
(* Bounds                                                                   *)
(***************************************************************************)
MaxRecs == 2
MaxPkgs == 3
MaxLimit == 2

(***************************************************************************)
(* Option, strings, iterators                                               *)
(***************************************************************************)
None == <<>>
Some(x) == <<x>>
is_none(o) == o = <<>>
unwrap(o) == o[1]

Str(c) == <<c>>
is_whitespace(c) == c = " "

RECURSIVE trim_start(_)
trim_start(s) ==
    IF s # <<>> /\ is_whitespace(Head(s)) THEN trim_start(Tail(s)) ELSE s

RECURSIVE trim_end(_)
trim_end(s) ==
    IF s # <<>> /\ is_whitespace(s[Len(s)])
    THEN trim_end(SubSeq(s, 1, Len(s) - 1))
    ELSE s

trim(s) == trim_end(trim_start(s))

\* Iterator::flat_map(..).collect(): concatenation, in order, of the pieces
RECURSIVE flatten(_)
flatten(ss) == IF ss = <<>> THEN <<>> ELSE Head(ss) \o flatten(Tail(ss))

\* HashMap::get on an association list with distinct keys
map_get(m, key) ==
    LET hits == {i \in DOMAIN m : m[i].k = key}
    IN IF hits = {} THEN None ELSE Some(m[CHOOSE i \in hits : TRUE].v)

map_keys(m) == {m[i].k : i \in DOMAIN m}

\* HashMap::insert: an existing key keeps its slot and gets the new value, a
\* new key lands at position pos of the iteration order
map_insert(m, key, val, pos) ==
    IF key \in map_keys(m)
    THEN [i \in DOMAIN m |-> IF m[i].k = key THEN [k |-> key, v |-> val] ELSE m[i]]
    ELSE SubSeq(m, 1, pos - 1) \o <<[k |-> key, v |-> val]>> \o SubSeq(m, pos, Len(m))

(***************************************************************************)
(* The data the registry is exercised with                                  *)
(***************************************************************************)
RepoNames == {"r1", "r2"}
CollNames == {"c1", "c2"}
KeyStrs == {Str("a"), Str("b")}
Variants == {None, Some(Str("v"))}
\* struct Package, reduced to the fields the registry reads
Packages == [name : {Str("a")}, variant : Variants]
QueryNames == {Str("a"), <<" ", "a", " ">>, Str("b")}
\* struct PackageQuery
Queries == [name : QueryNames,
            collection : {None} \cup {Some(c) : c \in CollNames},
            variant : Variants]

\* A repository's data is enumerated by placing packages one at a time: pl.p
\* is pushed to the Vec stored under key pl.k of collection pl.c, creating the
\* collection and the key where missing.  The key is independent of the
\* package's name: add_repository accepts any map of this shape.
Placements == [c : CollNames, k : KeyStrs, p : Packages]

place(coll, pl) ==
    LET inner == IF is_none(map_get(coll, pl.c)) THEN <<>> ELSE unwrap(map_get(coll, pl.c))
        vec == IF is_none(map_get(inner, pl.k)) THEN <<>> ELSE unwrap(map_get(inner, pl.k))
        inner2 == map_insert(inner, pl.k, Append(vec, pl.p), Len(inner) + 1)
    IN map_insert(coll, pl.c, inner2, Len(coll) + 1)

RECURSIVE build(_)
build(pls) ==
    IF pls = <<>> THEN <<>>
    ELSE place(build(SubSeq(pls, 1, Len(pls) - 1)), pls[Len(pls)])

\* struct RepositoryPackages: the values with at most n package records
RepositoryPackages ==
    [n \in 0..MaxRecs |->
        {[collection |-> build(pls)] :
            pls \in UNION {[1..m -> Placements] : m \in 0..n}}]

\* number of package records of one repository / of the registry
RECURSIVE sum(_)
sum(s) == IF s = <<>> THEN 0 ELSE Head(s) + sum(Tail(s))

repo_records(packages) ==
    sum(flatten([c \in DOMAIN packages.collection |->
        [n \in DOMAIN packages.collection[c].v |->
            Len(packages.collection[c].v[n].v)]]))

records(repo) == sum([r \in DOMAIN repo |-> repo_records(repo[r].v)])

(***************************************************************************)
(* PackageStorage: new, add_repository, list_packages, get_packages,        *)
(* resolve_package                                                          *)
(***************************************************************************)
new == <<>>

\* variation: the map is replaced by one that holds the new repository only
add_repository_alone(repo, repo_name, packages, pos) ==
    <<[k |-> repo_name, v |-> packages]>>

add_repository(repo, repo_name, packages, pos) ==
    map_insert(repo, repo_name, packages, pos)

\* struct ResolvedPackage as list_packages builds it
ListedPackage(repo_name, key, package) ==
    [repo_name |-> repo_name, collection |-> key, package |-> package]

\* variation: the filter without its `collection.is_none()` alternative
listed_exact(collection, key) == Some(key) = collection

\* the closure of filter in list_packages
listed(collection, key) == is_none(collection) \/ Some(key) = collection

list_packages(repo, collection) ==
    flatten([r \in DOMAIN repo |->
        flatten([c \in DOMAIN repo[r].v.collection |->
            LET key == repo[r].v.collection[c].k
                collections == repo[r].v.collection[c].v
            IN IF listed(collection, key)
               THEN flatten([n \in DOMAIN collections |->
                        [p \in DOMAIN collections[n].v |->
                            ListedPackage(repo[r].k, key, collections[n].v[p])]])
               ELSE <<>>])])

\* variation: the struct literal with repo_name and collection exchanged
ResolvedPackageSwapped(repo_name, pkg, collection_key) ==
    [repo_name |-> collection_key, collection |-> repo_name, package |-> pkg]

\* struct ResolvedPackage as get_packages builds it
ResolvedPackage(repo_name, pkg, collection_key) ==
    [repo_name |-> repo_name, collection |-> collection_key, package |-> pkg]

\* the closure of filter_map in get_packages
pkg_matches(pkg, pkg_name, q) ==
    /\ pkg.name = pkg_name
    /\ (is_none(q.variant) \/ pkg.variant = q.variant)

get_packages(repo, q) ==
    LET pkg_name == trim(q.name)
        resolved ==
            flatten([r \in DOMAIN repo |->
                flatten([c \in DOMAIN repo[r].v.collection |->
                    LET collection_key == repo[r].v.collection[c].k
                        map == repo[r].v.collection[c].v
                        pkgs == map_get(map, pkg_name)
                    IN IF is_none(q.collection) \/ Some(collection_key) = q.collection
                       THEN IF is_none(pkgs) THEN <<>>
                            ELSE LET hit == SelectSeq(unwrap(pkgs),
                                                LAMBDA pkg : pkg_matches(pkg, pkg_name, q))
                                 IN [i \in DOMAIN hit |->
                                        ResolvedPackage(repo[r].k, hit[i], collection_key)]
                       ELSE <<>>])])
    IN IF resolved # <<>> THEN Some(resolved) ELSE None


\* Result<T>
Ok(v) == [ok |-> TRUE, v |-> v]
Err(e) == [ok |-> FALSE, v |-> e]

\* parse_package_query: a package name is written here as the parts its
\* compact syntax carries; parsing hands them over as a PackageQuery
parse_package_query(package_name) ==
    [name |-> package_name.name,
     collection |-> package_name.collection,
     variant |-> package_name.variant]

\* select_package_variant: the interactive choice among several matches.  sel
\* is the user's answer: an index of the list picks that record, anything
\* else ends the selection with an error.  prompted counts the selections run.
select_package_variant(packages, sel) ==
    [r |-> IF sel \in DOMAIN packages THEN Ok(packages[sel]) ELSE Err("selection"),
     prompted |-> 1]

\* the arm `1 =>` of resolve_package
single_match(packages) ==
    [r |-> Ok([repo_name |-> packages[1].repo_name,
               package |-> packages[1].package,
               collection |-> packages[1].collection]),
     prompted |-> 0]

\* variation: several matches, the first one taken without asking
several_first(packages, sel) == [r |-> Ok(packages[1]), prompted |-> 0]

\* the arm `_ =>` of resolve_package
several_matches(packages, sel) == select_package_variant(packages, sel)

resolve_package(repo, package_name, sel) ==
    LET pkg_query == parse_package_query(package_name)
        packages == get_packages(repo, pkg_query)
    IN IF is_none(packages)
       THEN [r |-> Err("not found"), prompted |-> 0]
       ELSE CASE Len(unwrap(packages)) = 0 -> [r |-> Err("fly"), prompted |-> 0]
              [] Len(unwrap(packages)) = 1 -> single_match(unwrap(packages))
              [] OTHER -> several_matches(unwrap(packages), sel)

(***************************************************************************)
(* Registry operations as actions                                           *)
(***************************************************************************)
\* no handle_platform_download call is in progress
NoCall ==
    [caller |-> "none", project |-> <<>>, split |-> <<>>, assets |-> <<>>,
     prompts |-> 0, response |-> <<>>, selected_asset |-> <<>>,
     download |-> <<>>,
     error |-> "none"]

\* the command is not download
NoDownload ==
    /\ links = <<>>
    /\ github = <<>>
    /\ gitlab = <<>>
    /\ ghcr = <<>>
    /\ ctx = [yes |-> FALSE, regex_patterns |-> "valid"]
    /\ at = 0
    /\ call = NoCall
    /\ attempted = <<>>
    /\ fetched = <<>>
    /\ eprintln = 0
    /\ succeeded = 0
    /\ downloaded = 0

\* the command is not run
NoRun ==
    /\ command = <<>>
    /\ config = <<>>
    /\ runner = <<>>

Idle ==
    /\ pc = "idle"
    /\ package_names = <<>>
    /\ parallel = FALSE
    /\ parallel_limit = 0
    /\ resolution = <<>>
    /\ resolved_packages = <<>>
    /\ permits = 0
    /\ idx = 0
    /\ joined = 0
    /\ task = <<>>
    /\ holder = <<>>
    /\ attempts = <<>>
    /\ installed_count = 0
    /\ errors_logged = 0
    /\ printed = <<>>
    /\ result = "none"

Init ==
    /\ repository = new
    /\ op = "new"
    /\ query = None
    /\ ret = None
    /\ answer = 0
    /\ Idle
    /\ NoDownload
    /\ NoRun

\* A behaviour is one invocation of the program: the repositories are loaded
\* (any number of add_repository calls), then one command runs against the
\* loaded registry.
Loading == op \in {"new", "add_repository"} /\ pc = "idle"

\* A new repository is put last in the iteration order: every order of the
\* repositories is still reached, by loading them in that order.
\* package records a new value of repo_name may hold within MaxRecs
budget(repo_name) ==
    MaxRecs - records(SelectSeq(repository, LAMBDA e : e.k # repo_name))

AddRepository(repo_name, packages, pos) ==
    /\ Loading
    /\ records(add_repository(repository, repo_name, packages, pos)) <= MaxRecs
    /\ repository' = add_repository(repository, repo_name, packages, pos)
    /\ op' = "add_repository"
    /\ query' = repo_name
    /\ ret' = packages
    /\ answer' = 0
    /\ UNCHANGED <<insvars, cmdvars>>

GetPackages(q) ==
    /\ Loading
    /\ repository' = repository
    /\ op' = "get_packages"
    /\ query' = q
    /\ ret' = get_packages(repository, q)
    /\ answer' = 0
    /\ UNCHANGED <<insvars, cmdvars>>

ResolvePackage(q, sel) ==
    /\ Loading
    /\ repository' = repository
    /\ op' = "resolve_package"
    /\ query' = q
    /\ ret' = resolve_package(repository, q, sel)
    /\ answer' = IF ret'.prompted = 1 THEN sel ELSE 0
    /\ UNCHANGED <<insvars, cmdvars>>

ListPackages(collection) ==
    /\ Loading
    /\ repository' = repository
    /\ op' = "list_packages"
    /\ query' = collection
    /\ ret' = list_packages(repository, collection)
    /\ answer' = 0
    /\ UNCHANGED <<insvars, cmdvars>>

Next ==
    \/ \E repo_name \in RepoNames :
        \E packages \in RepositoryPackages[budget(repo_name)] :
            AddRepository(repo_name, packages, Len(repository) + 1)
    \/ \E q \in Queries : GetPackages(q)
    \/ \E q \in Queries, sel \in 0..MaxRecs : ResolvePackage(q, sel)
    \/ \E collection \in {None} \cup {Some(c) : c \in CollNames} :
        ListPackages(collection)

Spec == Init /\ [][Next]_vars


(***************************************************************************)
(* PackageStorage::install_packages                                         *)
(*                                                                          *)
(* pc: "resolve" (the resolve_package calls), "spawn" (the loop that        *)
(* acquires a permit and spawns a task per package), "join" (the loop over  *)
(* the handles), "seq" (the sequential loop), "done" (returned), "unwound"  *)
(* (a panic left the function).                                             *)
(* task[i]: "Resolved", "Spawned" (task created, owns its permit, not yet   *)
(* polled), "Installing", "RetOk" / "RetErr" (install returned), "Counted"  *)
(* / "Logged" (fetch_add / error! done), "Unwinding" (install panicked),    *)
(* and the terminal "Installed", "Failed", "Panicked".                      *)
(***************************************************************************)
\* the registry install_packages runs against: package a in two variants
InstallRegistry ==
    add_repository(new, "r1",
        [collection |-> build(<<
            [c |-> "c1", k |-> Str("a"), p |-> [name |-> Str("a"), variant |-> None]],
            [c |-> "c1", k |-> Str("a"), p |-> [name |-> Str("a"), variant |-> Some(Str("v"))]]>>)],
        1)

\* names with several matches, one match, no match
InstallNames ==
    {[name |-> Str("a"), collection |-> None, variant |-> None],
     [name |-> Str("a"), collection |-> None, variant |-> Some(Str("v"))],
     [name |-> Str("b"), collection |-> None, variant |-> None]}

Terminal == {"Installed", "Failed", "Panicked"}

\* variation: failed items dropped (filter_map(.ok())) instead of ending the
\* collection
collect_skip(acc, r) == IF r.ok THEN Ok(Append(acc, r.v)) ELSE Ok(acc)

\* Result<Vec<_>>::from_iter, one item at a time: the first Err ends the
\* collection
collect(acc, r) == IF r.ok THEN Ok(Append(acc, r.v)) ELSE Err(r.v)

\* variation: the task is spawned without waiting for a permit
can_acquire_nowait(p) == TRUE

\* Semaphore::acquire_owned completes only when a permit is available
can_acquire(p) == p > 0

\* drop(permit) at the end of the task
drop_permit(p) == p + 1

\* variation: the permit is leaked when the task panics
unwind_permit_leak(p) == p

\* the permit captured by the task's future is dropped with the future when
\* install panics
unwind_permit(p) == p + 1

\* variation: a racy load/store pair in which every task read 0
fetch_add_lost(c) == 1

\* AtomicU64::fetch_add(1, Relaxed): one atomic read-modify-write; the counter
\* is at most the batch length, far from wrapping at 2^64
fetch_add(c) == c + 1

\* variation: the handles are not awaited
handle_ready_now(t) == TRUE

\* `handle.await` completes when the task has ended
handle_ready(t) == t \in Terminal

\* variation: the error is propagated with `?` as in remove_packages
seq_abort_on_err(i) == [pc |-> "done", result |-> "err", idx |-> i]

\* the sequential loop after an install that returned Err: carries on
seq_after_err(i) == [pc |-> "seq", result |-> "none", idx |-> i + 1]

InitInstall ==
    /\ repository = InstallRegistry
    /\ op = "add_repository"
    /\ query = None
    /\ ret = None
    /\ answer = 0
    /\ pc = "resolve"
    /\ package_names \in UNION {[1..n -> InstallNames] : n \in 0..MaxPkgs}
    /\ parallel \in BOOLEAN
    /\ parallel_limit \in 0..MaxLimit
    /\ resolution = <<>>
    /\ resolved_packages = <<>>
    /\ permits = 0
    /\ idx = 0
    /\ joined = 0
    /\ task = <<>>
    /\ holder = <<>>
    /\ attempts = <<>>
    /\ installed_count = 0
    /\ errors_logged = 0
    /\ printed = <<>>
    /\ result = "none"
    /\ NoDownload
    /\ NoRun

\* one resolve_package call of the map/collect of lines 92-96
Resolve(sel) ==
    /\ pc = "resolve"
    /\ Len(resolution) < Len(package_names)
    /\ LET r == resolve_package(repository, package_names[Len(resolution) + 1], sel).r
           c == collect(resolved_packages, r)
       IN /\ IF c.ok
             THEN /\ resolved_packages' = c.v
                  /\ UNCHANGED <<pc, result>>
             ELSE /\ pc' = "done"
                  /\ result' = "err"
                  /\ UNCHANGED resolved_packages
          /\ resolution' = Append(resolution, r)
    /\ UNCHANGED <<regvars, cmdvars, package_names, parallel, parallel_limit, permits,
                   idx, joined, task, holder, attempts, installed_count,
                   errors_logged, printed>>

\* every name resolved: the counter and (parallel) the semaphore are created
Begin ==
    /\ pc = "resolve"
    /\ Len(resolution) = Len(package_names)
    /\ installed_count' = 0
    /\ task' = [i \in DOMAIN resolved_packages |-> "Resolved"]
    /\ holder' = [i \in DOMAIN resolved_packages |-> 0]
    /\ attempts' = [i \in DOMAIN resolved_packages |-> 0]
    /\ idx' = 0
    /\ IF parallel
       THEN pc' = "spawn" /\ permits' = parallel_limit
       ELSE pc' = "seq" /\ UNCHANGED permits
    /\ UNCHANGED <<regvars, cmdvars, package_names, parallel, parallel_limit,
                   resolution, resolved_packages, joined, errors_logged,
                   printed, result>>

\* one turn of the spawn loop: acquire a permit, spawn the task that owns it
Spawn ==
    /\ pc = "spawn"
    /\ idx < Len(resolved_packages)
    /\ can_acquire(permits)
    /\ permits' = permits - 1
    /\ holder' = [holder EXCEPT ![idx + 1] = @ + 1]
    /\ task' = [task EXCEPT ![idx + 1] = "Spawned"]
    /\ idx' = idx + 1
    /\ UNCHANGED <<regvars, cmdvars, pc, package_names, parallel, parallel_limit,
                   resolution, resolved_packages, joined, attempts,
                   installed_count, errors_logged, printed, result>>

SpawnDone ==
    /\ pc = "spawn"
    /\ idx = Len(resolved_packages)
    /\ pc' = "join"
    /\ joined' = 0
    /\ UNCHANGED <<regvars, cmdvars, package_names, parallel, parallel_limit,
                   resolution, resolved_packages, permits, idx, task, holder,
                   attempts, installed_count, errors_logged, printed, result>>

\* the runtime polls the task: package.install(..) starts
TaskStart(i) ==
    /\ task[i] = "Spawned"
    /\ task' = [task EXCEPT ![i] = "Installing"]
    /\ attempts' = [attempts EXCEPT ![i] = @ + 1]
    /\ UNCHANGED <<regvars, cmdvars, pc, package_names, parallel, parallel_limit,
                   resolution, resolved_packages, permits, idx, joined, holder,
                   installed_count, errors_logged, printed, result>>

\* package.install(..) ends: Ok, Err or a panic
TaskInstall(i, outcome) ==
    /\ parallel
    /\ task[i] = "Installing"
    /\ task' = [task EXCEPT ![i] = outcome]
    /\ UNCHANGED <<regvars, cmdvars, pc, package_names, parallel, parallel_limit,
                   resolution, resolved_packages, permits, idx, joined, holder,
                   attempts, installed_count, errors_logged, printed, result>>

TaskFetchAdd(i) ==
    /\ task[i] = "RetOk"
    /\ installed_count' = fetch_add(installed_count)
    /\ task' = [task EXCEPT ![i] = "Counted"]
    /\ UNCHANGED <<regvars, cmdvars, pc, package_names, parallel, parallel_limit,
                   resolution, resolved_packages, permits, idx, joined, holder,
                   attempts, errors_logged, printed, result>>

TaskLogError(i) ==
    /\ task[i] = "RetErr"
    /\ errors_logged' = errors_logged + 1
    /\ task' = [task EXCEPT ![i] = "Logged"]
    /\ UNCHANGED <<regvars, cmdvars, pc, package_names, parallel, parallel_limit,
                   resolution, resolved_packages, permits, idx, joined, holder,
                   attempts, installed_count, printed, result>>

TaskDropPermit(i) ==
    /\ task[i] \in {"Counted", "Logged"}
    /\ permits' = drop_permit(permits)
    /\ holder' = [holder EXCEPT ![i] = @ - 1]
    /\ task' = [task EXCEPT ![i] = IF task[i] = "Counted" THEN "Installed" ELSE "Failed"]
    /\ UNCHANGED <<regvars, cmdvars, pc, package_names, parallel, parallel_limit,
                   resolution, resolved_packages, idx, joined, attempts,
                   installed_count, errors_logged, printed, result>>

TaskUnwind(i) ==
    /\ task[i] = "Unwinding"
    /\ permits' = unwind_permit(permits)
    /\ holder' = [holder EXCEPT ![i] = @ - 1]
    /\ task' = [task EXCEPT ![i] = "Panicked"]
    /\ UNCHANGED <<regvars, cmdvars, pc, package_names, parallel, parallel_limit,
                   resolution, resolved_packages, idx, joined, attempts,
                   installed_count, errors_logged, printed, result>>

\* `handle.await?`: a task that panicked is a JoinError, returned at once
Join ==
    /\ pc = "join"
    /\ joined < Len(resolved_packages)
    /\ handle_ready(task[joined + 1])
    /\ IF task[joined + 1] = "Panicked"
       THEN pc' = "done" /\ result' = "err" /\ UNCHANGED joined
       ELSE joined' = joined + 1 /\ UNCHANGED <<pc, result>>
    /\ UNCHANGED <<regvars, cmdvars, package_names, parallel, parallel_limit,
                   resolution, resolved_packages, permits, idx, task, holder,
                   attempts, installed_count, errors_logged, printed>>

SeqStart ==
    /\ pc = "seq"
    /\ idx < Len(resolved_packages)
    /\ task[idx + 1] = "Resolved"
    /\ task' = [task EXCEPT ![idx + 1] = "Installing"]
    /\ attempts' = [attempts EXCEPT ![idx + 1] = @ + 1]
    /\ UNCHANGED <<regvars, cmdvars, pc, package_names, parallel, parallel_limit,
                   resolution, resolved_packages, permits, idx, joined, holder,
                   installed_count, errors_logged, printed, result>>

\* the awaited install of the sequential loop ends; a panic unwinds
\* install_packages itself
SeqInstall(outcome) ==
    /\ pc = "seq"
    /\ idx < Len(resolved_packages)
    /\ task[idx + 1] = "Installing"
    /\ CASE outcome = "RetOk" ->
              /\ installed_count' = fetch_add(installed_count)
              /\ task' = [task EXCEPT ![idx + 1] = "Installed"]
              /\ idx' = idx + 1
              /\ UNCHANGED <<pc, result, errors_logged>>
         [] outcome = "RetErr" ->
              /\ errors_logged' = errors_logged + 1
              /\ task' = [task EXCEPT ![idx + 1] = "Failed"]
              /\ pc' = seq_after_err(idx).pc
              /\ result' = seq_after_err(idx).result
              /\ idx' = seq_after_err(idx).idx
              /\ UNCHANGED installed_count
         [] OTHER ->
              /\ task' = [task EXCEPT ![idx + 1] = "Panicked"]
              /\ pc' = "unwound"
              /\ UNCHANGED <<idx, result, installed_count, errors_logged>>
    /\ UNCHANGED <<regvars, cmdvars, package_names, parallel, parallel_limit,
                   resolution, resolved_packages, permits, joined, holder,
                   attempts, printed>>

\* both loops lead to the println! of the summary and Ok(())
Summary ==
    /\ \/ pc = "join" /\ joined = Len(resolved_packages)
       \/ pc = "seq" /\ idx = Len(resolved_packages)
    /\ printed' = Append(printed, <<installed_count, Len(resolved_packages)>>)
    /\ pc' = "done"
    /\ result' = "ok"
    /\ UNCHANGED <<regvars, cmdvars, package_names, parallel, parallel_limit,
                   resolution, resolved_packages, permits, idx, joined, task,
                   holder, attempts, installed_count, errors_logged>>

Outcomes == {"RetOk", "RetErr", "Unwinding"}

NextInstall ==
    \/ \E sel \in 0..records(repository) : Resolve(sel)
    \/ Begin
    \/ Spawn
    \/ SpawnDone
    \/ \E i \in DOMAIN task : TaskStart(i)
    \/ \E i \in DOMAIN task, outcome \in Outcomes : TaskInstall(i, outcome)
    \/ \E i \in DOMAIN task : TaskFetchAdd(i)
    \/ \E i \in DOMAIN task : TaskLogError(i)
    \/ \E i \in DOMAIN task : TaskDropPermit(i)
    \/ \E i \in DOMAIN task : TaskUnwind(i)
    \/ Join
    \/ SeqStart
    \/ \E outcome \in Outcomes : SeqInstall(outcome)
    \/ Summary

SpecInstall == InitInstall /\ [][NextInstall]_vars


(***************************************************************************)
(* Properties of install_packages                                           *)
(***************************************************************************)
\* every name of the batch was resolved
AllResolved ==
    /\ Len(resolution) = Len(package_names)
    /\ \A i \in DOMAIN resolution : resolution[i].ok

\* the counter, the semaphore and the per-package records exist
Begun == pc # "resolve" /\ AllResolved

InState(S) == {i \in DOMAIN task : task[i] \in S}

\* install has started and the task has not ended
InFlight == {"Installing", "RetOk", "RetErr", "Counted", "Logged", "Unwinding"}

NoPanic == InState({"Unwinding", "Panicked"}) = {}

\* C1: in bounded-parallel mode the number of packages whose install has
\* started and whose task has not yet ended never exceeds the permit cap
\* parallel_limit, in every reachable state and under every interleaving.
C1_ConcurrencyCap ==
    (parallel /\ Begun) => Cardinality(InState(InFlight)) <= parallel_limit

\* three packages, cap 2: two installs run while the third waits for a permit
C1_Witness ==
    /\ parallel
    /\ parallel_limit = 2
    /\ Len(task) = 3
    /\ task[1] = "Installing"
    /\ task[2] = "Installing"
    /\ task[3] = "Resolved"
    /\ permits = 0

\* C2: in bounded-parallel mode a task owns exactly one permit from before
\* its install starts until it ends, and none afterwards, however it ends
\* (Ok, Err, panic); permits are neither lost nor duplicated (available plus
\* owned is always the cap), and once every task has ended all parallel_limit
\* permits are available again.
C2_PermitDiscipline ==
    (parallel /\ Begun) =>
        /\ \A i \in DOMAIN task :
            /\ task[i] \in InFlight \cup {"Spawned"} => holder[i] = 1
            /\ task[i] \in Terminal \cup {"Resolved"} => holder[i] = 0
        /\ permits \in 0..parallel_limit
        /\ permits + sum(holder) = parallel_limit
        /\ (pc # "spawn" /\ InState(Terminal) = DOMAIN task) => permits = parallel_limit

\* three tasks ended in the three possible ways, two permits back
C2_Witness ==
    /\ parallel
    /\ parallel_limit = 2
    /\ Len(task) = 3
    /\ task[1] = "Panicked"
    /\ task[2] = "Failed"
    /\ task[3] = "Installed"
    /\ permits = 2

\* C3: if resolve_package fails for a name of the batch, install_packages
\* returns an error at once and no package of the batch is ever installed:
\* no install task or sequential install exists, nothing is counted, logged
\* or printed, in both modes.
C3_ResolveFailFast ==
    (\E i \in DOMAIN resolution : ~resolution[i].ok) =>
        /\ pc = "done"
        /\ result = "err"
        /\ task = <<>>
        /\ attempts = <<>>
        /\ installed_count = 0
        /\ errors_logged = 0
        /\ printed = <<>>

\* two names resolved, the third did not: nothing was installed
C3_Witness ==
    /\ parallel
    /\ parallel_limit = 2
    /\ Len(package_names) = 3
    /\ Len(resolution) = 3
    /\ resolution[1].ok
    /\ resolution[2].ok
    /\ ~resolution[3].ok
    /\ pc = "done"
    /\ result = "err"

\* C4: after a successful resolution no package is installed twice; an
\* install that returns Err is logged, not counted and changes nothing for
\* the others: when install_packages has returned and no task panicked, it
\* returned Ok and every resolved package was installed exactly once, ending
\* Installed or Failed, with one log line per Failed; an Err return after
\* resolution only ever comes from a panicked task.
C4_FailureIsolation ==
    Begun =>
        /\ \A i \in DOMAIN attempts : attempts[i] <= 1
        /\ errors_logged = Cardinality(InState({"Logged", "Failed"}))
        /\ (pc = "done" /\ NoPanic) =>
            /\ result = "ok"
            /\ \A i \in DOMAIN resolved_packages :
                attempts[i] = 1 /\ task[i] \in {"Installed", "Failed"}
        /\ (pc = "done" /\ result = "err") => InState({"Panicked"}) # {}

\* sequential mode: the first install failed, the two after it succeeded
C4_Witness ==
    /\ ~parallel
    /\ pc = "done"
    /\ result = "ok"
    /\ task = <<"Failed", "Installed", "Installed">>
    /\ errors_logged = 1

\* C5: installed_count never exceeds the number of installs that returned
\* Ok, hence never the number of resolved packages; the printed summary
\* shows exactly the number of packages whose install returned Ok and
\* len(resolved_packages) as the attempted figure.
C5_CountInvariant ==
    Begun =>
        /\ installed_count <= Cardinality(InState({"RetOk", "Counted", "Installed"}))
        /\ installed_count <= Len(resolved_packages)
        /\ \A k \in DOMAIN printed :
            /\ printed[k][1] = Cardinality(InState({"RetOk", "Counted", "Installed"}))
            /\ printed[k][2] = Len(resolved_packages)

\* parallel mode, cap 2: two of three installs succeeded and were counted
C5_Witness ==
    /\ parallel
    /\ parallel_limit = 2
    /\ printed = << <<2, 3>> >>
    /\ task = <<"Installed", "Failed", "Installed">>

\* the sequential loop as a function of the per-package outcomes
RECURSIVE seq_loop(_, _)
seq_loop(outcomes, count) ==
    IF outcomes = <<>> THEN count
    ELSE seq_loop(Tail(outcomes),
                  IF Head(outcomes) = "Installed" THEN fetch_add(count) ELSE count)

\* C6: for every mode, every cap and every interleaving, once all installs
\* have returned (Ok or Err) and install_packages has returned, the summary
\* and the return value are those the sequential loop yields for the same
\* outcomes.
C6_ModeEquivalence ==
    (Begun /\ pc = "done" /\ InState({"Installed", "Failed"}) = DOMAIN task) =>
        /\ printed = << <<seq_loop(task, 0), Len(resolved_packages)>> >>
        /\ result = "ok"

\* parallel mode: the report of a batch whose second install failed
C6_Witness ==
    /\ parallel
    /\ parallel_limit = 1
    /\ pc = "done"
    /\ task = <<"Installed", "Failed", "Installed">>
    /\ printed = << <<2, 3>> >>

\* C7: whenever all names resolved, the summary is printed exactly once by
\* the time install_packages returns, and only after every package has
\* reached a terminal state, however the installs end.
C7_SummaryAlways ==
    Begun =>
        /\ Len(printed) <= 1
        /\ (Len(printed) = 1 => InState(Terminal) = DOMAIN task)
        /\ (pc = "done" => Len(printed) = 1)

(***************************************************************************)
(* Properties of the registry queries                                       *)
(***************************************************************************)
\* the stored package records, by position: repository r, collection c,
\* key n, element p of the Vec
Stored ==
    {pos \in (DOMAIN repository) \X (1..MaxRecs + 1) \X (1..MaxRecs + 1)
                \X (1..MaxRecs + 1) :
        /\ pos[2] \in DOMAIN repository[pos[1]].v.collection
        /\ pos[3] \in DOMAIN repository[pos[1]].v.collection[pos[2]].v
        /\ pos[4] \in DOMAIN repository[pos[1]].v.collection[pos[2]].v[pos[3]].v}

record_at(pos) ==
    [repo_name |-> repository[pos[1]].k,
     collection |-> repository[pos[1]].v.collection[pos[2]].k,
     package |-> repository[pos[1]].v.collection[pos[2]].v[pos[3]].v[pos[4]]]

\* the stored records a query asks for
Wanted(q) ==
    {pos \in Stored :
        /\ record_at(pos).package.name = trim(q.name)
        /\ (is_none(q.collection) \/ Some(record_at(pos).collection) = q.collection)
        /\ (is_none(q.variant) \/ record_at(pos).package.variant = q.variant)}

\* list l holds one entry per position of P
OnePerRecord(l, P) ==
    /\ Len(l) = Cardinality(P)
    /\ \A i \in DOMAIN l :
        Cardinality({j \in DOMAIN l : l[j] = l[i]})
            = Cardinality({pos \in P : record_at(pos) = l[i]})

\* C8: get_packages(Q) returns Some of exactly the stored records whose
\* package name is trim(Q.name) and whose collection and variant are those
\* of Q where given, one entry per stored record, and None exactly when
\* there is no such record.
C8_GetPackagesExact ==
    op = "get_packages" =>
        IF Wanted(query) = {}
        THEN is_none(ret)
        ELSE ~is_none(ret) /\ OnePerRecord(unwrap(ret), Wanted(query))

\* number of records get_packages matches for the resolved name
Matched ==
    LET m == get_packages(repository, parse_package_query(query))
    IN IF is_none(m) THEN <<>> ELSE unwrap(m)

\* C9: resolve_package decides on the number N of records get_packages
\* matches: N = 0 is a "not found" error, N = 1 returns the record without a
\* selection, N > 1 always runs the selection and returns the record the
\* user chose, or an error when the selection fails.
C9_ResolveByCount ==
    op = "resolve_package" =>
        /\ Len(Matched) = 0 => ret = [r |-> Err("not found"), prompted |-> 0]
        /\ Len(Matched) = 1 => ret = [r |-> Ok(Matched[1]), prompted |-> 0]
        /\ Len(Matched) > 1 =>
            /\ ret.prompted = 1
            /\ IF answer \in DOMAIN Matched
               THEN ret.r = Ok(Matched[answer])
               ELSE ~ret.r.ok

\* two matches, the user picked the second
C9_Witness ==
    /\ op = "resolve_package"
    /\ Len(Matched) = 2
    /\ answer = 2
    /\ ret.prompted = 1
    /\ ret.r = Ok(Matched[2])
    /\ Matched[1] # Matched[2]

\* C10: a record returned by resolve_package is stored in the registry: its
\* repo_name is a key of the repository map, its collection a collection of
\* that repository, its package an element of the list kept there under the
\* package's name, and the record is an element of list_packages(None).
C10_ResolvedIsStored ==
    (op = "resolve_package" /\ ret.r.ok) =>
        LET r == ret.r.v
            repo == map_get(repository, r.repo_name)
            coll == IF is_none(repo) THEN None
                    ELSE map_get(unwrap(repo).collection, r.collection)
            pkgs == IF is_none(coll) THEN None
                    ELSE map_get(unwrap(coll), r.package.name)
        IN /\ ~is_none(repo)
           /\ ~is_none(coll)
           /\ ~is_none(pkgs)
           /\ \E i \in DOMAIN unwrap(pkgs) : unwrap(pkgs)[i] = r.package
           /\ \E i \in DOMAIN list_packages(repository, None) :
                list_packages(repository, None)[i] = r

\* the only match, found in the second of two repositories
C10_Witness ==
    /\ op = "resolve_package"
    /\ ret.r.ok
    /\ ret.prompted = 0
    /\ Len(repository) = 2
    /\ ret.r.v.repo_name = repository[2].k
    /\ ret.r.v.collection = "c2"
    /\ records(repository) = 2


\* the package records of a RepositoryPackages value m, by position:
\* collection c, key n, element p of the Vec
Held(m) ==
    {pos \in (1..MaxRecs) \X (1..MaxRecs) \X (1..MaxRecs) :
        /\ pos[1] \in DOMAIN m.collection
        /\ pos[2] \in DOMAIN m.collection[pos[1]].v
        /\ pos[3] \in DOMAIN m.collection[pos[1]].v[pos[2]].v}

held_at(repo_name, m, pos) ==
    [repo_name |-> repo_name,
     collection |-> m.collection[pos[1]].k,
     package |-> m.collection[pos[1]].v[pos[2]].v[pos[3]]]

\* C13: right after add_repository(name, M), on a registry that held name
\* before or not, the entries of list_packages(None) for repository name
\* are the package records of M, each exactly once with its own collection,
\* and nothing else; list_packages(None) returns one entry per stored
\* record and list_packages(Some(c)) exactly the stored records that sit in
\* a collection named c.
C13_ListRoundTrip ==
    /\ op = "add_repository" =>
        LET l == SelectSeq(list_packages(repository, None),
                           LAMBDA e : e.repo_name = query)
        IN /\ Len(l) = Cardinality(Held(ret))
           /\ \A i \in DOMAIN l :
                Cardinality({j \in DOMAIN l : l[j] = l[i]})
                    = Cardinality({pos \in Held(ret) : held_at(query, ret, pos) = l[i]})
    /\ op = "list_packages" =>
        OnePerRecord(ret, {pos \in Stored :
            is_none(query) \/ Some(record_at(pos).collection) = query})

\* a package stored twice in one Vec is listed twice
C13_Witness ==
    /\ op = "list_packages"
    /\ is_none(query)
    /\ Len(repository) = 1
    /\ Len(ret) = 2
    /\ ret[1] = ret[2]


(***************************************************************************)
(* PackageStorage::search                                                   *)
(***************************************************************************)
\* char::to_lowercase on the letters in use
lower(c) == IF c = "A" THEN "a" ELSE c

to_lowercase(s) == [i \in DOMAIN s |-> lower(s[i])]

\* str::contains
contains(haystack, needle) ==
    \E i \in 0..(Len(haystack) - Len(needle)) :
        SubSeq(haystack, i + 1, i + Len(needle)) = needle

\* the closure of filter_map in search: None, or the scored tuple
scored(pkg, pkg_name, q, case_sensitive, collection_name, repo_name) ==
    LET found_pkg_name == IF case_sensitive THEN pkg.name ELSE to_lowercase(pkg.name)
        score == IF found_pkg_name = pkg_name THEN 2
                 ELSE IF contains(found_pkg_name, pkg_name) THEN 1 ELSE 0
    IN IF score = 0 THEN None
       ELSE IF is_none(q.variant) \/ pkg.variant = q.variant
            THEN Some([score |-> score, package |-> pkg,
                       collection |-> collection_name, repo_name |-> repo_name])
            ELSE None

\* variation: ascending comparison, a.cmp(b)
by_score_asc(a, b) == IF a < b THEN "Less" ELSE IF a = b THEN "Equal" ELSE "Greater"

\* the comparison handed to sort_by: b.cmp(a)
by_score(a, b) == IF b < a THEN "Less" ELSE IF b = a THEN "Equal" ELSE "Greater"

\* slice::sort_by is stable: an element goes before the first one it is Less
\* than, after everything else placed so far
RECURSIVE insert_by(_, _)
insert_by(sorted, x) ==
    IF sorted = <<>> THEN <<x>>
    ELSE IF by_score(x.score, Head(sorted).score) = "Less"
         THEN <<x>> \o sorted
         ELSE <<Head(sorted)>> \o insert_by(Tail(sorted), x)

RECURSIVE sort_by(_)
sort_by(l) ==
    IF l = <<>> THEN <<>>
    ELSE insert_by(sort_by(SubSeq(l, 1, Len(l) - 1)), l[Len(l)])

search(repo, text, case_sensitive) ==
    LET q == parse_package_query(text)
        pkg_name == IF case_sensitive THEN trim(q.name) ELSE to_lowercase(trim(q.name))
        resolved ==
            flatten([r \in DOMAIN repo |->
                flatten([c \in DOMAIN repo[r].v.collection |->
                    LET collection_packages == repo[r].v.collection[c].v
                    IN flatten([n \in DOMAIN collection_packages |->
                         flatten([p \in DOMAIN collection_packages[n].v |->
                            scored(collection_packages[n].v[p], pkg_name, q,
                                   case_sensitive, repo[r].v.collection[c].k,
                                   repo[r].k)])])])])
        sorted == sort_by(resolved)
        kept == SelectSeq(sorted, LAMBDA e : e.score > 0)
    IN [i \in DOMAIN kept |->
            [repo_name |-> kept[i].repo_name,
             package |-> kept[i].package,
             collection |-> kept[i].collection]]

\* the data search is exercised with: names that equal, contain or differ in
\* case from the queries, stored under their own name
SearchPackages ==
    {[name |-> Str("a"), variant |-> None],
     [name |-> Str("a"), variant |-> Some(Str("v"))],
     [name |-> Str("A"), variant |-> None],
     [name |-> <<"a", "b">>, variant |-> None]}

SearchPlacements ==
    {[c |-> c, k |-> p.name, p |-> p] : c \in CollNames, p \in SearchPackages}

SearchTexts ==
    [name : {Str("a"), <<" ", "A", " ">>, <<"a", "b">>, Str(" ")},
     collection : {None},
     variant : Variants \cup {Some(Str("V"))}]
    \cup {[name |-> Str("a"), collection |-> Some("c2"), variant |-> None]}

InitSearch ==
    /\ repository \in
        {add_repository(new, "r1", [collection |-> build(pls)], 1) :
            pls \in UNION {[1..m -> SearchPlacements] : m \in 0..(MaxRecs + 1)}}
    /\ op = "add_repository"
    /\ query = None
    /\ ret = None
    /\ answer = 0
    /\ pc = "search"
    /\ package_names = <<>>
    /\ parallel = FALSE
    /\ parallel_limit = 0
    /\ resolution = <<>>
    /\ resolved_packages = <<>>
    /\ permits = 0
    /\ idx = 0
    /\ joined = 0
    /\ task = <<>>
    /\ holder = <<>>
    /\ attempts = <<>>
    /\ installed_count = 0
    /\ errors_logged = 0
    /\ printed = <<>>
    /\ result = "none"
    /\ NoDownload
    /\ NoRun

Search(text, case_sensitive) ==
    /\ pc = "search"
    /\ pc' = "done"
    /\ repository' = repository
    /\ op' = "search"
    /\ query' = [text |-> text, case_sensitive |-> case_sensitive]
    /\ ret' = search(repository, text, case_sensitive)
    /\ answer' = 0
    /\ UNCHANGED <<cmdvars, package_names, parallel, parallel_limit, resolution,
                   resolved_packages, permits, idx, joined, task, holder,
                   attempts, installed_count, errors_logged, printed, result>>

NextSearch ==
    \E text \in SearchTexts, case_sensitive \in BOOLEAN : Search(text, case_sensitive)

SpecSearch == InitSearch /\ [][NextSearch]_vars

\* what the search asks of a stored record: 2 for a name equal to the
\* trimmed query name, 1 for a name that contains it, 0 otherwise or when a
\* variant is asked for and the record has another one; names compared after
\* lowercasing both unless case_sensitive
Relevance(pos) ==
    LET want == trim(query.text.name)
        have == record_at(pos).package.name
        w == IF query.case_sensitive THEN want ELSE to_lowercase(want)
        h == IF query.case_sensitive THEN have ELSE to_lowercase(have)
    IN IF ~(is_none(query.text.variant)
            \/ record_at(pos).package.variant = query.text.variant) THEN 0
       ELSE IF h = w THEN 2
       ELSE IF contains(h, w) THEN 1 ELSE 0

\* encounter order of the stored records
Earlier(p, q) ==
    \E i \in 1..4 : p[i] < q[i] /\ \A j \in 1..(i - 1) : p[j] = q[j]

Found == {pos \in Stored : Relevance(pos) > 0}

\* number of found records the result shows before pos
Rank(pos) ==
    Cardinality({q \in Found :
        \/ Relevance(q) > Relevance(pos)
        \/ Relevance(q) = Relevance(pos) /\ Earlier(q, pos)})

\* C12: search returns exactly the stored records of relevance 2 or 1, the
\* former before the latter, records of equal relevance in encounter order,
\* and no record of relevance 0.
C12_SearchRanking ==
    op = "search" =>
        /\ Len(ret) = Cardinality(Found)
        /\ \A pos \in Found : ret[Rank(pos) + 1] = record_at(pos)

\* case-insensitive search for " A ": a containing name was met first, then
\* two equal names; the equal ones come first, in encounter order
C12_Witness ==
    /\ op = "search"
    /\ ~query.case_sensitive
    /\ query.text.name = <<" ", "A", " ">>
    /\ Len(ret) = 3
    /\ ret[1].package.name = Str("A")
    /\ ret[2].package.name = Str("a")
    /\ ret[3].package.name = <<"a", "b">>
    /\ \E p, q, r \in Found :
        /\ Earlier(r, p) /\ Earlier(p, q)
        /\ record_at(r) = ret[3] /\ record_at(p) = ret[1] /\ record_at(q) = ret[2]


(***************************************************************************)
(* PackageStorage::remove_packages                                          *)
(***************************************************************************)
\* variation: the value of an Err is kept as if it were a package
ok_keep(r) == Some(r.v)

\* Result::ok
ok(r) == IF r.ok THEN Some(r.v) ELSE None

\* variation: the loop carries on after a failed removal and reports it at
\* the end
rm_carry_on(i) == [pc |-> "rm_loop", result |-> "err"]

\* `package.remove().await?` after a removal that returned Err: the error is
\* returned from remove_packages at once
rm_after_err(i) == [pc |-> "done", result |-> "err"]

\* variation: the removal is started without awaiting the one before it
remove_unawaited(t) == TRUE

\* `.await` inside the for loop: the next turn of the loop begins only when
\* the future of the turn before has completed
remove_awaited(t) == t \in {"Removed", "RemoveFailed"}

InitRemove ==
    /\ repository = InstallRegistry
    /\ op = "add_repository"
    /\ query = None
    /\ ret = None
    /\ answer = 0
    /\ pc = "rm_resolve"
    /\ package_names \in UNION {[1..n -> InstallNames] : n \in 0..MaxPkgs}
    /\ parallel = FALSE
    /\ parallel_limit = 0
    /\ resolution = <<>>
    /\ resolved_packages = <<>>
    /\ permits = 0
    /\ idx = 0
    /\ joined = 0
    /\ task = <<>>
    /\ holder = <<>>
    /\ attempts = <<>>
    /\ installed_count = 0
    /\ errors_logged = 0
    /\ printed = <<>>
    /\ result = "none"
    /\ NoDownload
    /\ NoRun

\* one turn of the filter_map of lines 170-173
RemoveResolve(sel) ==
    /\ pc = "rm_resolve"
    /\ Len(resolution) < Len(package_names)
    /\ LET r == resolve_package(repository, package_names[Len(resolution) + 1], sel).r
       IN /\ resolution' = Append(resolution, r)
          /\ resolved_packages' = resolved_packages \o ok(r)
    /\ UNCHANGED <<regvars, cmdvars, pc, package_names, parallel, parallel_limit,
                   permits, idx, joined, task, holder, attempts,
                   installed_count, errors_logged, printed, result>>

\* collect() has produced the Vec the for loop consumes
RemoveBegin ==
    /\ pc = "rm_resolve"
    /\ Len(resolution) = Len(package_names)
    /\ pc' = "rm_loop"
    /\ task' = [i \in DOMAIN resolved_packages |-> "Resolved"]
    /\ attempts' = [i \in DOMAIN resolved_packages |-> 0]
    /\ idx' = 0
    /\ UNCHANGED <<regvars, cmdvars, package_names, parallel, parallel_limit,
                   resolution, resolved_packages, permits, joined, holder,
                   installed_count, errors_logged, printed, result>>

\* the loop takes the next package and calls package.remove()
RemoveStart ==
    /\ pc = "rm_loop"
    /\ idx < Len(resolved_packages)
    /\ IF idx = 0 THEN TRUE ELSE remove_awaited(task[idx])
    /\ task' = [task EXCEPT ![idx + 1] = "Removing"]
    /\ attempts' = [attempts EXCEPT ![idx + 1] = @ + 1]
    /\ idx' = idx + 1
    /\ UNCHANGED <<regvars, cmdvars, pc, package_names, parallel, parallel_limit,
                   resolution, resolved_packages, permits, joined, holder,
                   installed_count, errors_logged, printed, result>>

\* a removal in progress ends; a panic unwinds remove_packages itself
RemoveEnd(i, outcome) ==
    /\ pc = "rm_loop"
    /\ task[i] = "Removing"
    /\ CASE outcome = "RetOk" ->
              /\ task' = [task EXCEPT ![i] = "Removed"]
              /\ UNCHANGED <<pc, result>>
         [] outcome = "RetErr" ->
              /\ task' = [task EXCEPT ![i] = "RemoveFailed"]
              /\ pc' = rm_after_err(i).pc
              /\ result' = rm_after_err(i).result
         [] OTHER ->
              /\ task' = [task EXCEPT ![i] = "Panicked"]
              /\ pc' = "unwound"
              /\ UNCHANGED result
    /\ UNCHANGED <<regvars, cmdvars, package_names, parallel, parallel_limit,
                   resolution, resolved_packages, permits, idx, joined, holder,
                   attempts, installed_count, errors_logged, printed>>

\* the Vec is exhausted: Ok(())
RemoveDone ==
    /\ pc = "rm_loop"
    /\ idx = Len(resolved_packages)
    /\ IF idx = 0 THEN TRUE ELSE remove_awaited(task[idx])
    /\ pc' = "done"
    /\ result' = IF result = "none" THEN "ok" ELSE result
    /\ UNCHANGED <<regvars, cmdvars, package_names, parallel, parallel_limit,
                   resolution, resolved_packages, permits, idx, joined, task,
                   holder, attempts, installed_count, errors_logged, printed>>

NextRemove ==
    \/ \E sel \in 0..records(repository) : RemoveResolve(sel)
    \/ RemoveBegin
    \/ RemoveStart
    \/ \E i \in DOMAIN task, outcome \in Outcomes : RemoveEnd(i, outcome)
    \/ RemoveDone

SpecRemove == InitRemove /\ [][NextRemove]_vars

\* sequential install_packages and remove_packages
InitSequential ==
    \/ InitInstall /\ ~parallel
    \/ InitRemove

NextSequential ==
    \/ \E sel \in 0..records(repository) : Resolve(sel)
    \/ Begin
    \/ SeqStart
    \/ \E outcome \in Outcomes : SeqInstall(outcome)
    \/ Summary
    \/ NextRemove

SpecSequential == InitSequential /\ [][NextSequential]_vars

\* the packages resolve_package found for the names handled so far, in the
\* order of the names
Resolvable ==
    LET found == SelectSeq(resolution, LAMBDA r : r.ok)
    IN [i \in DOMAIN found |-> found[i].v]

Removals == {"Removing", "Removed", "RemoveFailed", "Panicked"}

\* C18: a name that does not resolve is skipped and never makes
\* remove_packages fail; the resolved packages are removed one at a time in
\* input order; remove_packages returns an error exactly when the removal of
\* a resolved package failed.
C18_RemoveSoftFail ==
    /\ resolved_packages = Resolvable
    /\ pc \in {"rm_resolve", "rm_loop"} => result = "none"
    /\ Cardinality(InState({"Removing"})) <= 1
    /\ \A i, j \in DOMAIN task :
        (i < j /\ task[j] \in Removals) => task[i] = "Removed"
    /\ pc = "done" =>
        /\ result \in {"ok", "err"}
        /\ result = "err" <=> InState({"RemoveFailed"}) # {}
        /\ result = "ok" => \A i \in DOMAIN task : task[i] = "Removed"

\* a name did not resolve, the two others were removed and the call
\* returned Ok
C18_Witness ==
    /\ pc = "done"
    /\ result = "ok"
    /\ Len(package_names) = 3
    /\ ~resolution[2].ok
    /\ task = <<"Removed", "Removed">>

\* C19 as stated: after a failed removal every other resolved package of the
\* call, those after the failing one included, is still removed.
C19_OthersStillRemoved ==
    pc = "done" =>
        \A i \in DOMAIN task :
            task[i] = "RemoveFailed" =>
                \A j \in DOMAIN task \ {i} : task[j] = "Removed"

\* C19, amended: the first failed removal ends the call with its error; the
\* resolved packages before it have been removed, and those after it are
\* never attempted.
C19_StopsAtFirstFailure ==
    \A i \in DOMAIN task :
        task[i] = "RemoveFailed" =>
            /\ pc = "done"
            /\ result = "err"
            /\ \A j \in DOMAIN task :
                /\ j < i => task[j] = "Removed"
                /\ j > i => task[j] = "Resolved" /\ attempts[j] = 0

C19_Witness ==
    /\ pc = "done"
    /\ result = "err"
    /\ task = <<"Removed", "RemoveFailed", "Resolved">>

\* the operation on the package has finished
Finished == Terminal \cup {"Removed", "RemoveFailed"}

\* C20: in sequential install_packages and in remove_packages the operation
\* on a package starts only after the operation on every package before it
\* in input order has finished, so no two operations overlap; in
\* remove_packages the ones before it have finished successfully.
C20_InOrderNoOverlap ==
    ~parallel =>
        /\ \A i, j \in DOMAIN task :
            (i < j /\ task[j] # "Resolved") =>
                /\ task[i] \in Finished
                /\ task[j] \in Removals \ {"Panicked"} => task[i] = "Removed"
        /\ Cardinality({i \in DOMAIN task : task[i] \notin Finished \cup {"Resolved"}}) <= 1
        /\ \A i \in DOMAIN task : attempts[i] <= 1

\* the second removal is in progress: the first has finished, the third has
\* not begun
C20_Witness ==
    /\ pc = "rm_loop"
    /\ task = <<"Removed", "Removing", "Resolved">>
    /\ attempts = <<1, 1, 0>>


(***************************************************************************)
(* soar-cli: download                                                       *)
(***************************************************************************)
MaxLen == 5
MaxAssets == 2
MaxPrompts == 2
MaxTargets == 3

\* str::split_once(c): the text before and after the first c
split_once(s, c) ==
    IF \E i \in DOMAIN s : s[i] = c
    THEN LET i == CHOOSE i \in DOMAIN s :
                    s[i] = c /\ \A j \in 1..(i - 1) : s[j] # c
         IN Some(<<SubSeq(s, 1, i - 1), SubSeq(s, i + 1, Len(s))>>)
    ELSE None

\* str::trim_end_matches(c)
RECURSIVE trim_end_matches(_, _)
trim_end_matches(s, c) ==
    IF s # <<>> /\ s[Len(s)] = c
    THEN trim_end_matches(SubSeq(s, 1, Len(s) - 1), c)
    ELSE s

\* the match of lines 194-197
split_project(project) ==
    LET parts == split_once(trim(project), "@")
    IN IF is_none(parts) THEN [project |-> trim_end_matches(project, "@"), tag |-> None]
       ELSE IF trim(unwrap(parts)[2]) # <<>>
            THEN [project |-> unwrap(parts)[1], tag |-> Some(trim(unwrap(parts)[2]))]
            ELSE [project |-> trim_end_matches(project, "@"), tag |-> None]

\* create_platform_options: Regex::new on every pattern, then unwrap
create_platform_options(regex_patterns) ==
    IF regex_patterns = "invalid" THEN "panic" ELSE "options"

DigitChars == <<"0", "1", "2", "3", "4", "5", "6", "7", "8", "9">>

to_digit(c) ==
    IF \E i \in DOMAIN DigitChars : DigitChars[i] = c
    THEN Some((CHOOSE i \in DOMAIN DigitChars : DigitChars[i] = c) - 1)
    ELSE None

RECURSIVE from_digits(_, _)
from_digits(s, acc) ==
    IF s = <<>> THEN Ok(acc)
    ELSE IF is_none(to_digit(Head(s))) THEN Err("InvalidDigit")
    ELSE from_digits(Tail(s), acc * 10 + unwrap(to_digit(Head(s))))

\* str::parse::<usize>: an optional '+' and decimal digits, nothing else; the
\* responses in use are too short to overflow 64 bits
parse_usize(s) ==
    IF s = <<>> THEN Err("Empty")
    ELSE LET digits == IF Head(s) = "+" THEN Tail(s) ELSE s
         IN IF digits = <<>> THEN Err("InvalidDigit") ELSE from_digits(digits, 0)

\* the guard of the match arm in select_asset
valid_selection(n, max) == n > 0 /\ n <= max

\* variation: the yes flag is not consulted
auto_select_single(assets, yes) == Len(assets) = 1

\* `assets.len() == 1 || ctx.yes`
auto_select(assets, yes) == Len(assets) = 1 \/ yes

\* variation: the error is propagated with `?`
propagate_platform_err(caller) == [pc |-> "done", result |-> "err", eprintln |-> 0]

\* `if let Err(e) = handle_platform_download(..).await { eprintln!(..) }`:
\* the error is printed and the loop goes on
after_platform_err(caller) == [pc |-> caller, result |-> "none", eprintln |-> 1]

\* PlatformUrl::parse on the links in use
PlatformUrl_parse(link) ==
    CASE link = "https://example.com/f" -> Ok([variant |-> "DirectUrl", project |-> <<>>])
      [] link = "https://github.com/a" -> Ok([variant |-> "Github", project |-> Str("a")])
      [] link = "https://gitlab.com/a" -> Ok([variant |-> "Gitlab", project |-> Str("a")])
      [] link = "ghcr.io/a" -> Ok([variant |-> "Oci", project |-> <<>>])
      [] OTHER -> Err("InvalidUrl")

Links == {"https://example.com/f", "https://github.com/a", "https://gitlab.com/a",
          "ghcr.io/a", ""}

ProjectChars == {"a", "@", " "}
Projects == UNION {[1..n -> ProjectChars] : n \in 0..MaxLen}
Responses == {Str("0"), Str("1"), Str("2"), Str("9"), Str("x"), <<"+", "1">>}
\* regex_patterns: every pattern is a regex (as when there is none), or not
Contexts == [yes : BOOLEAN, regex_patterns : {"valid", "invalid"}]

\* install_packages' variables, unused by download and run
NoInstall ==
    /\ package_names = <<>>
    /\ parallel = FALSE
    /\ parallel_limit = 0
    /\ resolution = <<>>
    /\ resolved_packages = <<>>
    /\ permits = 0
    /\ idx = 0
    /\ joined = 0
    /\ task = <<>>
    /\ holder = <<>>
    /\ attempts = <<>>
    /\ installed_count = 0
    /\ errors_logged = 0
    /\ printed = <<>>
    /\ result = "none"

\* download is called either with one project of any shape, or with a batch
\* of at most MaxTargets targets spread over the four lists
InitDownload ==
    /\ repository = new
    /\ op = "new"
    /\ query = None
    /\ ret = None
    /\ answer = 0
    /\ pc = "dl_links"
    /\ NoInstall
    /\ NoRun
    /\ ctx \in Contexts
    /\ \/ /\ links = <<>>
          /\ github \in {<<project>> : project \in Projects}
          /\ gitlab = <<>>
          /\ ghcr = <<>>
       \/ /\ links \in UNION {[1..n -> Links] : n \in 0..MaxTargets}
          /\ github \in {[i \in 1..n |-> Str("a")] : n \in 0..MaxTargets}
          /\ gitlab \in {[i \in 1..n |-> Str("a")] : n \in 0..MaxTargets}
          /\ ghcr \in {[i \in 1..n |-> "ghcr.io/a"] : n \in 0..MaxTargets}
          /\ Len(links) + Len(github) + Len(gitlab) + Len(ghcr) <= MaxTargets
    /\ at = 0
    /\ call = NoCall
    /\ attempted = <<>>
    /\ fetched = <<>>
    /\ eprintln = 0
    /\ succeeded = 0
    /\ downloaded = 0

\* handle_platform_download is entered with `project`
Enter(caller, project) ==
    /\ call' = [NoCall EXCEPT !.caller = caller, !.project = project]
    /\ pc' = "hpd_split"

\* handle_platform_download is about to return: Ok(()) when error is
\* "none", otherwise the Err of the named call
Leave(error) ==
    /\ call' = [call EXCEPT !.error = error,
                            !.download = IF pc = "hpd_download"
                                         THEN call.selected_asset ELSE @]
    /\ pc' = "hpd_ret"
    /\ UNCHANGED <<result, eprintln, succeeded, at>>

\* one turn of the loop of handle_direct_downloads
DirectLink(outcome) ==
    /\ pc = "dl_links"
    /\ at < Len(links)
    /\ attempted' = Append(attempted, <<"links", at + 1>>)
    /\ LET url == PlatformUrl_parse(links[at + 1])
       IN IF url.ok /\ url.v.variant \in {"Github", "Gitlab"}
          THEN /\ Enter("dl_links", url.v.project)
               /\ UNCHANGED <<at, eprintln, succeeded, result>>
          ELSE /\ at' = at + 1
               /\ IF url.ok /\ outcome = "Ok"
                  THEN succeeded' = succeeded + 1 /\ UNCHANGED eprintln
                  ELSE eprintln' = eprintln + 1 /\ UNCHANGED succeeded
               /\ UNCHANGED <<pc, call, result>>
    /\ UNCHANGED <<regvars, runvars, package_names, parallel, parallel_limit,
                   resolution, resolved_packages, permits, idx, joined, task,
                   holder, attempts, installed_count, errors_logged, printed,
                   links, github, gitlab, ghcr, ctx, fetched, downloaded>>

\* one turn of the loop of handle_github_downloads / handle_gitlab_downloads
PlatformProject ==
    /\ pc \in {"dl_github", "dl_gitlab"}
    /\ LET projects == IF pc = "dl_github" THEN github ELSE gitlab
       IN /\ at < Len(projects)
          /\ attempted' = Append(attempted,
                <<IF pc = "dl_github" THEN "github" ELSE "gitlab", at + 1>>)
          /\ Enter(pc, projects[at + 1])
    /\ UNCHANGED <<regvars, runvars, package_names, parallel, parallel_limit,
                   resolution, resolved_packages, permits, idx, joined, task,
                   holder, attempts, installed_count, errors_logged, printed,
                   result, links, github, gitlab, ghcr, ctx, at, fetched,
                   eprintln, succeeded, downloaded>>

\* one turn of the loop of handle_oci_downloads
OciReference(outcome) ==
    /\ pc = "dl_ghcr"
    /\ at < Len(ghcr)
    /\ attempted' = Append(attempted, <<"ghcr", at + 1>>)
    /\ at' = at + 1
    /\ IF outcome = "Ok"
       THEN succeeded' = succeeded + 1 /\ UNCHANGED eprintln
       ELSE eprintln' = eprintln + 1 /\ UNCHANGED succeeded
    /\ UNCHANGED <<regvars, runvars, pc, package_names, parallel,
                   parallel_limit, resolution, resolved_packages, permits, idx,
                   joined, task, holder, attempts, installed_count,
                   errors_logged, printed, result, links, github, gitlab, ghcr,
                   ctx, call, fetched, downloaded>>

\* a list is exhausted (or empty): its handler returns Ok(()) and download
\* goes on to the next list, or returns Ok(()) after the last one
ListDone ==
    /\ \/ pc = "dl_links" /\ at = Len(links) /\ pc' = "dl_github"
       \/ pc = "dl_github" /\ at = Len(github) /\ pc' = "dl_gitlab"
       \/ pc = "dl_gitlab" /\ at = Len(gitlab) /\ pc' = "dl_ghcr"
       \/ pc = "dl_ghcr" /\ at = Len(ghcr) /\ pc' = "done"
    /\ result' = IF pc' = "done" THEN "ok" ELSE result
    /\ at' = 0
    /\ UNCHANGED <<regvars, runvars, package_names, parallel, parallel_limit,
                   resolution, resolved_packages, permits, idx, joined, task,
                   holder, attempts, installed_count, errors_logged, printed,
                   links, github, gitlab, ghcr, ctx, call, attempted, fetched,
                   eprintln, succeeded, downloaded>>


\* what no step inside handle_platform_download touches
outside_call == <<regvars, runvars, package_names, parallel, parallel_limit,
                  resolution, resolved_packages, permits, idx, joined, task,
                  holder, attempts, installed_count, errors_logged, printed,
                  links, github, gitlab, ghcr, ctx, attempted>>

\* lines 194-197: project and tag are taken from the parameter
HpdSplit ==
    /\ pc = "hpd_split"
    /\ call' = [call EXCEPT !.split = Some(split_project(call.project))]
    /\ pc' = "hpd_options"
    /\ UNCHANGED <<outside_call, result, eprintln, succeeded, at, fetched,
                   downloaded>>

\* line 199: a pattern that is not a regex makes the unwrap panic
HpdOptions ==
    /\ pc = "hpd_options"
    /\ pc' = IF create_platform_options(ctx.regex_patterns) = "panic"
             THEN "panicked" ELSE "hpd_fetch"
    /\ UNCHANGED <<outside_call, call, result, eprintln, succeeded, at,
                   fetched, downloaded>>

\* line 200: handler.fetch_releases(project).await?
HpdFetch(outcome) ==
    /\ pc = "hpd_fetch"
    /\ fetched' = Append(fetched, [param |-> call.project,
                                   project |-> unwrap(call.split).project,
                                   tag |-> unwrap(call.split).tag])
    /\ IF outcome = "Ok"
       THEN /\ pc' = "hpd_filter"
            /\ UNCHANGED <<call, result, eprintln, succeeded, at>>
       ELSE Leave("fetch_releases")
    /\ UNCHANGED <<outside_call, downloaded>>

\* line 201: handler.filter_releases(&releases, &options).await?; n is the
\* number of candidate assets, -1 an Err
HpdFilter(n) ==
    /\ pc = "hpd_filter"
    /\ IF n >= 0
       THEN /\ call' = [call EXCEPT !.assets = [i \in 1..n |-> i - 1]]
            /\ pc' = "hpd_choose"
            /\ UNCHANGED <<result, eprintln, succeeded, at>>
       ELSE Leave("filter_releases")
    /\ UNCHANGED <<outside_call, fetched, downloaded>>

\* lines 203-207: the first asset, or select_asset; assets[0] of an empty
\* Vec panics
HpdChoose ==
    /\ pc = "hpd_choose"
    /\ IF auto_select(call.assets, ctx.yes)
       THEN IF call.assets = <<>>
            THEN pc' = "panicked" /\ UNCHANGED call
            ELSE /\ call' = [call EXCEPT !.selected_asset = Some(call.assets[1])]
                 /\ pc' = "hpd_download"
       ELSE pc' = "hpd_ask" /\ UNCHANGED call
    /\ UNCHANGED <<outside_call, result, eprintln, succeeded, at, fetched,
                   downloaded>>

\* one turn of the loop of select_asset: the prompt fails, or its response is
\* parsed; the loop is followed for MaxPrompts responses
HpdAsk(reply) ==
    /\ pc = "hpd_ask"
    /\ IF ~reply.ok THEN Leave("interactive_ask")
       ELSE LET n == parse_usize(reply.v)
                chosen == IF n.ok THEN valid_selection(n.v, Len(call.assets)) ELSE FALSE
            IN /\ chosen \/ call.prompts + 1 < MaxPrompts
               /\ call' = [call EXCEPT
                     !.prompts = @ + 1,
                     !.response = Some(reply.v),
                     !.selected_asset =
                         IF chosen THEN Some(call.assets[(n.v - 1) + 1]) ELSE @]
               /\ pc' = IF chosen THEN "hpd_download" ELSE "hpd_ask"
               /\ UNCHANGED <<result, eprintln, succeeded, at>>
    /\ UNCHANGED <<outside_call, fetched, downloaded>>

\* line 208: handler.download(&selected_asset, options).await?, then Ok(())
HpdDownload(outcome) ==
    /\ pc = "hpd_download"
    /\ downloaded' = downloaded + 1
    /\ Leave(IF outcome = "Ok" THEN "none" ELSE "download")
    /\ UNCHANGED <<outside_call, fetched>>

\* handle_platform_download returns to the loop that called it
HpdReturn ==
    /\ pc = "hpd_ret"
    /\ LET next == IF call.error # "none" THEN after_platform_err(call.caller)
                   ELSE [pc |-> call.caller, result |-> "none", eprintln |-> 0]
       IN /\ pc' = next.pc
          /\ result' = next.result
          /\ eprintln' = eprintln + next.eprintln
    /\ succeeded' = IF call.error # "none" THEN succeeded ELSE succeeded + 1
    /\ at' = at + 1
    /\ call' = NoCall
    /\ UNCHANGED <<outside_call, fetched, downloaded>>

Replies == {Err(Str("io"))} \cup {Ok(response) : response \in Responses}

NextDownload ==
    \/ \E outcome \in {"Ok", "Err"} : DirectLink(outcome)
    \/ PlatformProject
    \/ \E outcome \in {"Ok", "Err"} : OciReference(outcome)
    \/ ListDone
    \/ HpdSplit
    \/ HpdOptions
    \/ \E outcome \in {"Ok", "Err"} : HpdFetch(outcome)
    \/ \E n \in -1..MaxAssets : HpdFilter(n)
    \/ HpdChoose
    \/ \E reply \in Replies : HpdAsk(reply)
    \/ \E outcome \in {"Ok", "Err"} : HpdDownload(outcome)
    \/ HpdReturn

SpecDownload == InitDownload /\ [][NextDownload]_vars

(***************************************************************************)
(* PackageStorage::run                                                      *)
(***************************************************************************)
MaxArgs == 2

\* Package::full_name('/'): the variant, when there is one, before the name
full_name(package) ==
    IF is_none(package.variant) THEN package.name
    ELSE unwrap(package.variant) \o <<"/">> \o package.name

\* Iterator::find_map: the first Some among the closure's results
find_map(results) ==
    IF \E i \in DOMAIN results : ~is_none(results[i])
    THEN results[CHOOSE i \in DOMAIN results :
                    /\ ~is_none(results[i])
                    /\ \A j \in 1..(i - 1) : is_none(results[j])]
    ELSE None

\* variation: the first source of the repository, whatever collection is asked
source_of_first(repo, collection) ==
    IF repo.sources = <<>> THEN None ELSE Some(repo.sources[1].v)

\* the closure of lines 378-384: the source of the requested collection, or
\* the first source of the repository
source_of(repo, collection) ==
    IF ~is_none(collection) THEN map_get(repo.sources, unwrap(collection))
    ELSE IF repo.sources = <<>> THEN None ELSE Some(repo.sources[1].v)

\* the closure of line 391: the first key of the repository's sources
first_key(repo) == IF repo.sources = <<>> THEN None ELSE Some(repo.sources[1].k)

\* lines 367-398: the ResolvedPackage made up from the query alone
ad_hoc(q, repositories) ==
    LET base_url == find_map([i \in DOMAIN repositories |->
                                    source_of(repositories[i], q.collection)])
        any_key == find_map([i \in DOMAIN repositories |-> first_key(repositories[i])])
    IN IF is_none(base_url) THEN Err("No repository found for the package")
       ELSE Ok([resolved_pkg |->
                    [repo_name |-> "",
                     package |-> [name |-> q.name, variant |-> q.variant],
                     collection |-> IF ~is_none(q.collection) THEN unwrap(q.collection)
                                    ELSE IF is_none(any_key) THEN "" ELSE unwrap(any_key)],
                download_url |->
                    Some(<<unwrap(base_url),
                           full_name([name |-> q.name, variant |-> q.variant])>>)])

\* the registries run is exercised with: package a in two variants, or none
RunRegistries == {InstallRegistry, new}

RunNames ==
    InstallNames
    \cup {[name |-> Str("a"), collection |-> Some("c2"), variant |-> None],
          [name |-> Str("b"), collection |-> Some("c2"), variant |-> None]}

Urls == {"u1", "u2"}

\* the sources of a repository of the configuration: at most one per collection
Sources ==
    {<<>>}
    \cup {<<[k |-> c, v |-> u]>> : c \in CollNames, u \in Urls}
    \cup {<<[k |-> e[1], v |-> e[3]], [k |-> e[2], v |-> "u2"]>> :
            e \in {e \in CollNames \X CollNames \X Urls : e[1] # e[2]}}

Configs == UNION {[1..n -> [sources : Sources]] : n \in 0..2}

Args == UNION {[1..n -> {"x", "y"}] : n \in 0..MaxArgs}

InitRun ==
    /\ repository \in RunRegistries
    /\ op = "add_repository"
    /\ query = None
    /\ ret = None
    /\ answer = 0
    /\ pc = "run"
    /\ NoInstall
    /\ NoDownload
    /\ command \in {<<>>} \cup {<<name>> \o args : name \in RunNames, args \in Args}
    /\ config \in Configs
    /\ runner = None

run_frame == <<regvars, dlvars, package_names, parallel, parallel_limit,
               resolution, resolved_packages, permits, idx, joined, task,
               holder, attempts, installed_count, errors_logged, printed,
               command, config>>

\* lines 356-363: the cache directory is created, then command[0] is read,
\* which panics on an empty command
RunStart(outcome) ==
    /\ pc = "run"
    /\ IF outcome = "Err" THEN pc' = "done" /\ result' = "err"
       ELSE IF command = <<>> THEN pc' = "panicked" /\ UNCHANGED result
       ELSE pc' = "run_resolve" /\ UNCHANGED result
    /\ UNCHANGED <<run_frame, runner>>

\* lines 364-398: the Runner is built from the registry's record when
\* resolve_package succeeds, otherwise from the query alone
RunResolve(sel) ==
    /\ pc = "run_resolve"
    /\ LET package_name == command[1]
           args == Tail(command)
           r == resolve_package(repository, package_name, sel).r
           made == ad_hoc(parse_package_query(package_name), config)
       IN IF r.ok
          THEN /\ runner' = Some([resolved_pkg |-> r.v, download_url |-> None,
                                  args |-> args])
               /\ pc' = "run_exec"
               /\ UNCHANGED result
          ELSE IF made.ok
          THEN /\ runner' = Some([resolved_pkg |-> made.v.resolved_pkg,
                                  download_url |-> made.v.download_url,
                                  args |-> args])
               /\ pc' = "run_exec"
               /\ UNCHANGED result
          ELSE /\ pc' = "done"
               /\ result' = "err"
               /\ UNCHANGED runner
    /\ UNCHANGED run_frame

\* lines 400-402: runner.execute().await?
RunExecute(outcome) ==
    /\ pc = "run_exec"
    /\ pc' = "done"
    /\ result' = IF outcome = "Ok" THEN "ok" ELSE "err"
    /\ UNCHANGED <<run_frame, runner>>

NextRun ==
    \/ \E outcome \in {"Ok", "Err"} : RunStart(outcome)
    \/ \E sel \in 0..records(repository) : RunResolve(sel)
    \/ \E outcome \in {"Ok", "Err"} : RunExecute(outcome)

SpecRun == InitRun /\ [][NextRun]_vars

(***************************************************************************)
(* Properties of download                                                   *)
(***************************************************************************)
\* position of the last '@' of s, 0 if there is none
LastAt(s) ==
    IF \E i \in DOMAIN s : s[i] = "@"
    THEN CHOOSE i \in DOMAIN s : s[i] = "@" /\ \A j \in (i + 1)..Len(s) : s[j] # "@"
    ELSE 0

BeforeLastAt(s) == SubSeq(s, 1, LastAt(s) - 1)
AfterLastAt(s) == SubSeq(s, LastAt(s) + 1, Len(s))
Blank(s) == \A i \in DOMAIN s : s[i] = " "

\* C14 as stated: a project string with non-blank text after its last '@' is
\* split at that '@' (project: everything before it, tag: the trimmed text
\* after it); a string without '@' is the project, with no tag.
C14_SplitAtLastAt ==
    \A k \in DOMAIN fetched :
        LET s == fetched[k].param
        IN IF LastAt(s) = 0
           THEN fetched[k].project = s /\ fetched[k].tag = None
           ELSE ~Blank(AfterLastAt(s)) =>
                    /\ fetched[k].project = BeforeLastAt(s)
                    /\ fetched[k].tag = Some(trim(AfterLastAt(s)))

\* C15 as stated: for P + '@' + T with T empty or blank, no tag is requested
\* and exactly P is passed to fetch_releases.
C15_BlankTagGivesProject ==
    \A k \in DOMAIN fetched :
        LET s == fetched[k].param
        IN (LastAt(s) > 0 /\ Blank(AfterLastAt(s))) =>
                /\ fetched[k].tag = None
                /\ fetched[k].project = BeforeLastAt(s)

\* the response is an integer n with 1 <= n <= len
Selects(response, len) ==
    IF parse_usize(response).ok
    THEN parse_usize(response).v >= 1 /\ parse_usize(response).v <= len
    ELSE FALSE

\* the candidate at (0-based) position i; candidates carry their position
Candidate(assets, i) == IF i + 1 \in DOMAIN assets THEN Some(assets[i + 1]) ELSE None

\* C16: the asset handed to download is a candidate of filter_releases: the
\* first one, without any prompt, exactly when there is one candidate or yes
\* is set; otherwise the candidate n-1 for the response n, 1 <= n <= len, that
\* ended the prompting, every response before it having led to another
\* prompt; select_asset ends without a download only when the prompt fails.
C16_AssetSelection ==
    LET len == Len(call.assets)
        auto == len = 1 \/ ctx.yes
    IN /\ pc = "hpd_ask" =>
            /\ ~auto
            /\ is_none(call.selected_asset)
            /\ call.prompts > 0 => ~Selects(unwrap(call.response), len)
       /\ pc = "hpd_download" =>
            /\ ~is_none(call.selected_asset)
            /\ \E i \in DOMAIN call.assets : call.selected_asset = Some(call.assets[i])
            /\ call.prompts = 0 <=> auto
            /\ auto => call.selected_asset = Candidate(call.assets, 0)
            /\ ~auto =>
                /\ Selects(unwrap(call.response), len)
                /\ call.selected_asset =
                      Candidate(call.assets, parse_usize(unwrap(call.response)).v - 1)
       /\ pc = "hpd_ret" =>
            /\ call.error \in {"none", "download"} =>
                    ~is_none(call.download) /\ call.download = call.selected_asset
            /\ call.error \notin {"none", "download"} => is_none(call.download)
            /\ (call.prompts > 0 /\ is_none(call.download)) =>
                    call.error = "interactive_ask"

\* two candidates, no yes flag: a first response was turned down, the
\* response "2" selected the second candidate
C16_Witness ==
    /\ pc = "hpd_download"
    /\ ~ctx.yes
    /\ Len(call.assets) = 2
    /\ call.prompts = 2
    /\ call.response = Some(Str("2"))
    /\ call.selected_asset = Some(1)

\* the targets of download in the order of its arguments
Targets ==
    [i \in DOMAIN links |-> <<"links", i>>] \o [i \in DOMAIN github |-> <<"github", i>>]
    \o [i \in DOMAIN gitlab |-> <<"gitlab", i>>] \o [i \in DOMAIN ghcr |-> <<"ghcr", i>>]

\* the process has crashed for one of the two reasons that are no error
\* value: a pattern that is no regex, or yes with no candidate
Crashed ==
    /\ pc = "panicked"
    /\ ctx.regex_patterns = "invalid" \/ (ctx.yes /\ call.assets = <<>>)

\* C17: the targets are taken up in the order links, github, gitlab, ghcr,
\* each list in input order, each target once; a link that does not parse, an
\* Err of fetch_releases, filter_releases, the selection or a download is
\* printed and the batch goes on: download never returns Err, and when it
\* returns every target has been taken up and has ended either well or with
\* one printed error.
C17_BatchBestEffort ==
    /\ Len(attempted) <= Len(Targets)
    /\ attempted = SubSeq(Targets, 1, Len(attempted))
    /\ result # "err"
    /\ pc = "panicked" => Crashed
    /\ eprintln + succeeded = Len(attempted) - (IF call.caller = "none" THEN 0 ELSE 1)
    /\ pc = "done" =>
        /\ result = "ok"
        /\ attempted = Targets
        /\ eprintln + succeeded = Len(Targets)

\* a link that does not parse, a project whose call failed and a reference
\* that could not be downloaded: three errors printed, every target taken
\* up, Ok returned
C17_Witness ==
    /\ pc = "done"
    /\ result = "ok"
    /\ links = <<"">>
    /\ attempted = <<<<"links", 1>>, <<"github", 1>>, <<"ghcr", 1>>>>
    /\ eprintln = 3


\* C21 as stated: a pattern that is no regex is an error of the project at
\* hand: the process does not crash, and every target of the batch is still
\* taken up before download returns.
C21_RegexIsItemError ==
    ctx.regex_patterns = "invalid" =>
        /\ pc # "panicked"
        /\ pc = "done" => attempted = Targets

\* C22 as stated: once filter_releases has returned no candidate, the call
\* neither indexes the empty list (a panic), nor prompts for a choice among
\* none, nor downloads anything.
C22_EmptyCandidatesIsError ==
    (call.caller # "none" /\ call.assets = <<>> /\ ctx.regex_patterns = "valid") =>
        pc \notin {"panicked", "hpd_ask", "hpd_download"}

(***************************************************************************)
(* install_packages when every install returns and scheduling is fair       *)
(***************************************************************************)
\* package.install(..) returns Ok or Err
Returns == {"RetOk", "RetErr"}

NextInstallFair ==
    \/ \E sel \in 0..records(repository) : Resolve(sel)
    \/ Begin
    \/ Spawn
    \/ SpawnDone
    \/ \E i \in DOMAIN task : TaskStart(i)
    \/ \E i \in DOMAIN task, outcome \in Returns : TaskInstall(i, outcome)
    \/ \E i \in DOMAIN task : TaskFetchAdd(i)
    \/ \E i \in DOMAIN task : TaskLogError(i)
    \/ \E i \in DOMAIN task : TaskDropPermit(i)
    \/ Join
    \/ SeqStart
    \/ \E outcome \in Returns : SeqInstall(outcome)
    \/ Summary

\* what a step of install_packages moves forward
progress == <<pc, resolved_packages, idx, joined, task, permits, installed_count,
              errors_logged>>

\* the tokio runtime polls every future that can make progress: a step that
\* stays possible is eventually taken
SpecInstallFair ==
    InitInstall /\ [][NextInstallFair]_vars /\ WF_progress(NextInstallFair)

\* C23 as stated: no package is installed twice, and for every parallel
\* limit, when every install returns and scheduling is fair, install_packages
\* eventually returns, with every package of a resolved batch Installed or
\* Failed.
C23_EveryPackageEnds ==
    /\ [](\A i \in DOMAIN attempts : attempts[i] <= 1)
    /\ <>(/\ pc = "done"
          /\ AllResolved => \A i \in DOMAIN task : task[i] \in {"Installed", "Failed"})

(***************************************************************************)
(* Properties of run                                                        *)
(***************************************************************************)
\* the query of the first token of the command
RunQuery == parse_package_query(command[1])

\* the repository has a source for the collection (any source when none is asked)
Supplies(repo, collection) ==
    IF is_none(collection) THEN repo.sources # <<>>
    ELSE unwrap(collection) \in map_keys(repo.sources)

\* the configured repositories that supply a base URL for the query
Supplying == {i \in DOMAIN config : Supplies(config[i], RunQuery.collection)}

\* the base URL of the first of them
FirstBaseUrl ==
    LET i == CHOOSE i \in Supplying : \A j \in Supplying : i <= j
        sources == config[i].sources
    IN IF is_none(RunQuery.collection) THEN sources[1].v
       ELSE sources[CHOOSE j \in DOMAIN sources : sources[j].k = unwrap(RunQuery.collection)].v

\* what resolve_package returns for the first token when the user answers sel
Resolution(sel) == resolve_package(repository, command[1], sel).r

\* the answers a user can give
Answers == 0..records(repository)

\* the step of run that builds the Runner
RunBuilds ==
    \E sel \in Answers :
        IF Resolution(sel).ok
        THEN /\ pc' = "run_exec"
             /\ runner' = Some([resolved_pkg |-> Resolution(sel).v, download_url |-> None,
                                args |-> Tail(command)])
        ELSE IF Supplying # {}
        THEN /\ pc' = "run_exec"
             /\ ~is_none(runner')
             /\ unwrap(runner').resolved_pkg.package =
                    [name |-> RunQuery.name, variant |-> RunQuery.variant]
             /\ unwrap(runner').download_url =
                    Some(<<FirstBaseUrl, full_name(unwrap(runner').resolved_pkg.package)>>)
             /\ unwrap(runner').args = Tail(command)
        ELSE /\ pc' = "done"
             /\ result' = "err"
             /\ runner' = None

\* C24: run builds its Runner from the registry's record when resolve_package
\* succeeds for the first token, and exactly when it fails from the query
\* alone, with the download URL made of the base URL of the first configured
\* repository that has a source for the requested collection (any source when
\* none is requested) and the package's qualified name; when no repository
\* supplies a base URL run returns an error with no Runner built, so nothing
\* is downloaded or executed; the remaining tokens are the Runner's arguments
\* in both paths, and execute gets the Runner as built.
C24_RunPaths ==
    [][/\ pc = "run_resolve" => RunBuilds
       /\ pc = "run_exec" => runner' = runner /\ pc' = "done"
       /\ pc = "run" => runner' = None]_vars

\* the query alone, served by the second configured repository (the first has
\* no source for the requested collection), with arguments passed on
C24_Witness ==
    /\ pc = "run_exec"
    /\ \A sel \in Answers : ~Resolution(sel).ok
    /\ Len(config) = 2
    /\ Supplying = {2}
    /\ ~is_none(unwrap(runner).download_url)
    /\ unwrap(runner).args # <<>>

(***************************************************************************)
(* The registry under every command                                         *)
(***************************************************************************)
\* one invocation of the program: the repositories are loaded and queried,
\* or one of install, search, remove, run is executed on a loaded registry
InitRegistryUse ==
    \/ Init
    \/ InitInstall
    \/ InitSearch
    \/ InitRemove
    \/ InitRun

NextRegistryUse ==
    \/ Loading /\ Next
    \/ NextInstall
    \/ NextSearch
    \/ NextRemove
    \/ NextRun

SpecRegistryUse == InitRegistryUse /\ [][NextRegistryUse]_vars

\* the step is a call of add_repository: query' is its repo_name, ret' its
\* packages
AddsRepository == pc = "idle" /\ op' = "add_repository"

\* C11: no step of resolve_package, get_packages, list_packages, search,
\* install_packages, remove_packages or run changes the repository map,
\* whatever it returns; a call of add_repository puts the given packages
\* under the given name and leaves the entry of every other name as it was.
C11_RegistryFrame ==
    [][IF AddsRepository
       THEN /\ map_get(repository', query') = Some(ret')
            /\ \A name \in RepoNames \ {query'} :
                    map_get(repository', name) = map_get(repository, name)
       ELSE repository' = repository]_vars

\* r1 was loaded, then r2, then r1 was loaded again with other packages: the
\* entry of r1 holds the new packages, the entry of r2 is still there
C11_Witness ==
    /\ pc = "idle"
    /\ op = "add_repository"
    /\ Len(repository) = 2
    /\ query = repository[1].k
    /\ ret = repository[1].v
    /\ records(repository) = MaxRecs

====
